---- MODULE Spec2Model ----
(***************************************************************************)
(* Model of scripts/fetch_data.py: the outlier validator                   *)
(* (validate_change_pct), the composite scorer (calc_score) and the two    *)
(* market aggregations (fetch_kr_data, fetch_us_data).                     *)
(*                                                                         *)
(* Numbers are fixed point:                                                *)
(*   change_pct, vol_surge field, prices : hundredths  (1.00 = 100)        *)
(*   log10                               : thousandths (1.000 = 1000)      *)
(*   score                               : ten-thousandths (1.0 = 10000),  *)
(*                                         the resolution of round(x, 4)   *)
(*   volumes                             : whole shares                    *)
(* None is the empty sequence, a present value v is <<v>>.                 *)
(***************************************************************************)
EXTENDS Integers, Sequences, FiniteSets, TLC

VARIABLES
    market,            \* which aggregation runs: "KR", "US" ("--": none)
    pc,                \* position inside the aggregation
    si,                \* index of the sector the loop is at
    ti,                \* index of the ticker inside that sector
    sector_changes,    \* fetch_kr_data: accepted change_pct of the sector
    sector_results,    \* list of {"name", "change_pct"}
    all_stocks,        \* list of scored stock records
    top_sector_names,  \* fetch_us_data: the focus set
    top_stocks,        \* the returned top_stocks
    feed,              \* what fast_info returned for each ticker fetched
    etf_feed,          \* what fast_info returned for each US sector ETF
    specials,          \* number of non-baseline snapshots fed so far
    f_pc,              \* pure-function harness: calls made so far
    f_args,            \* pure-function harness: the arguments
    f_valid,           \* validate_change_pct's return value
    f_score,           \* calc_score's return value
    f_surge            \* calc_score's local vol_surge after the clamp

vars == << market, pc, si, ti, sector_changes, sector_results, all_stocks,
           top_sector_names, top_stocks, feed, etf_feed, specials,
           f_pc, f_args, f_valid, f_score, f_surge >>

aggVars == << market, pc, si, ti, sector_changes, sector_results, all_stocks,
              top_sector_names, top_stocks, feed, etf_feed, specials >>

fnVars == << f_pc, f_args, f_valid, f_score, f_surge >>

----------------------------------------------------------------------------
(* Arithmetic                                                              *)

None == << >>

Some(v) == << v >>

Abs(x) == IF x < 0 THEN -x ELSE x

Min(a, b) == IF a < b THEN a ELSE b

Max(a, b) == IF a > b THEN a ELSE b

\* round() of the exact quotient n/d (d > 0), ties to even: Python's round
\* on a value that floating point holds exactly.
RoundHalfEven(n, d) ==
    LET q == n \div d
        r == n % d
    IN  IF 2 * r < d THEN q
        ELSE IF 2 * r > d THEN q + 1
        ELSE IF q % 2 = 0 THEN q ELSE q + 1

\* round(x, 2) of a float quotient n/d.  Off a tie the result is the nearest
\* value.  On an exact decimal tie the double nearest to n/d lies just above
\* or just below it (round(0.015, 2) = 0.01, round(0.035, 2) = 0.04), so
\* both neighbours are possible outcomes.
RoundFloat(n, d) ==
    LET q == n \div d
        r == n % d
    IN  IF 2 * r < d THEN {q}
        ELSE IF 2 * r > d THEN {q + 1}
        ELSE {q, q + 1}

RECURSIVE Pow10(_)
Pow10(k) == IF k = 0 THEN 1 ELSE 10 * Pow10(k - 1)

RECURSIVE Pow2(_)
Pow2(k) == IF k = 0 THEN 1 ELSE 2 * Pow2(k - 1)

RECURSIVE SumSeq(_)
SumSeq(s) == IF s = << >> THEN 0 ELSE Head(s) + SumSeq(Tail(s))

\* Characteristic of log10(x), x = xc/100 >= 1: largest c with 10^c <= x.
RECURSIVE Log10Char(_)
Log10Char(xc) == IF xc < 1000 THEN 0 ELSE 1 + Log10Char(xc \div 10)

\* The first k binary digits of log10(m), m = ms/1000 in [1, 10), by
\* repeated squaring.
RECURSIVE Log10Frac(_, _)
Log10Frac(ms, k) ==
    IF k = 0 THEN 0
    ELSE LET sq == (ms * ms) \div 1000
         IN  IF sq >= 10000
             THEN Pow2(k - 1) + Log10Frac(sq \div 10, k - 1)
             ELSE Log10Frac(sq, k - 1)

\* math.log10(x) in thousandths for x = xc/100 >= 1, from ten binary digits
\* of the mantissa's logarithm: log10(1) = 0 and log10(10^c) = c exactly.
log10(xc) ==
    LET c  == Log10Char(xc)
        ms == (xc * 10) \div Pow10(c)
    IN  c * 1000 + RoundHalfEven(Log10Frac(ms, 10) * 1000, Pow2(10))

----------------------------------------------------------------------------
(* calc_score and validate_change_pct                                      *)

\* Mutant of clamped_surge: the upper cap is missing.
clamped_surge_no_cap(volume, avg_volume) ==
    LET raw == IF avg_volume > 0 THEN << volume, avg_volume >> ELSE << 1, 1 >>
    IN  IF 10 * raw[1] < raw[2] THEN << 1, 10 >> ELSE raw

\* vol_surge of calc_score as a fraction <<num, den>>:
\*   (volume / avg_volume) if avg_volume > 0 else 1.0, then
\*   min(max(vol_surge, 0.1), 10.0).
clamped_surge(volume, avg_volume) ==
    LET raw == IF avg_volume > 0 THEN << volume, avg_volume >> ELSE << 1, 1 >>
        lo  == IF 10 * raw[1] < raw[2] THEN << 1, 10 >> ELSE raw
    IN  IF lo[1] > 10 * lo[2] THEN << 10, 1 >> ELSE lo

\* Mutant of calc_score: without trading value the change is returned as
\* the score.
calc_score_untraded_keeps_change(change_pct, price, volume, avg_volume) ==
    IF change_pct <= 0 THEN change_pct * 100
    ELSE IF price * volume < 100 THEN change_pct * 100
    ELSE LET vol_surge == clamped_surge(volume, avg_volume)
         IN  RoundHalfEven(change_pct * log10(price * volume) * vol_surge[1],
                           10 * vol_surge[2])

\* Mutant of calc_score: a decliner is scored 0.0.
calc_score_decliner_zero(change_pct, price, volume, avg_volume) ==
    IF change_pct <= 0 THEN 0
    ELSE IF price * volume < 100 THEN 0
    ELSE LET vol_surge == clamped_surge(volume, avg_volume)
         IN  RoundHalfEven(change_pct * log10(price * volume) * vol_surge[1],
                           10 * vol_surge[2])

\* Mutant of calc_score: the early return for change_pct <= 0 is missing.
calc_score_no_decliner_return(change_pct, price, volume, avg_volume) ==
    IF price * volume < 100 THEN 0
    ELSE LET vol_surge == clamped_surge(volume, avg_volume)
         IN  RoundHalfEven(change_pct * log10(price * volume) * vol_surge[1],
                           10 * vol_surge[2])

\* calc_score(change_pct, price, volume, avg_volume), in ten-thousandths.
\* change_pct and price are in hundredths.
calc_score(change_pct, price, volume, avg_volume) ==
    IF change_pct <= 0 THEN change_pct * 100
    ELSE LET trading_value == price * volume            \* hundredths
         IN  IF trading_value < 100 THEN 0
             ELSE LET log_value == log10(trading_value)
                      vol_surge == clamped_surge(volume, avg_volume)
                  IN  RoundHalfEven(change_pct * log_value * vol_surge[1],
                                    10 * vol_surge[2])

\* The value of calc_score's local vol_surge when the call returns: None
\* when an early return is taken before it is assigned.
score_vol_surge(change_pct, price, volume, avg_volume) ==
    IF change_pct <= 0 THEN None
    ELSE IF price * volume < 100 THEN None
    ELSE Some(clamped_surge(volume, avg_volume))

LimitKR == 3000

LimitUS == 5000

\* _CHANGE_LIMITS.get(market, 30.0)
CHANGE_LIMITS(m) == IF m = "US" THEN LimitUS ELSE LimitKR

\* Mutant of validate_change_pct: the limit itself is rejected.
validate_change_pct_at_limit(chg, m) ==
    IF Abs(chg) >= CHANGE_LIMITS(m) THEN None ELSE Some(chg)

\* Mutant of validate_change_pct: the US limit is applied to every market.
validate_change_pct_one_limit(chg, m) ==
    IF Abs(chg) > LimitUS THEN None ELSE Some(chg)

validate_change_pct(chg, m) ==
    IF Abs(chg) > CHANGE_LIMITS(m) THEN None ELSE Some(chg)

----------------------------------------------------------------------------
(* Harness for the two pure functions: the arguments are drawn at Init and *)
(* each function is applied once.                                          *)

FnChanges == { -5001, -5000, -3001, -3000, -250, -1, 0,
               1, 250, 3000, 3001, 5000, 5001 }

FnPrices == { 50, 100, 101, 1000 }

FnVolumes == { 0, 1, 2, 40 }

FnAvgVolumes == { 0, 1, 2, 3, 500 }

FnMarkets == { "KR", "US" }

FnIdle ==
    /\ f_pc = {} /\ f_valid = None /\ f_score = None /\ f_surge = None

AggIdle ==
    /\ market = "--" /\ pc = "idle" /\ si = 0 /\ ti = 0
    /\ sector_changes = << >> /\ sector_results = << >>
    /\ all_stocks = << >> /\ top_sector_names = {} /\ top_stocks = << >>
    /\ feed = << >> /\ etf_feed = << >> /\ specials = 0

InitFn ==
    /\ AggIdle
    /\ FnIdle
    /\ f_args \in [ chg : FnChanges, price : FnPrices, volume : FnVolumes,
                     avg_volume : FnAvgVolumes, market : FnMarkets ]

CallValidate ==
    /\ pc = "idle"
    /\ "validate" \notin f_pc
    /\ f_valid' = validate_change_pct(f_args.chg, f_args.market)
    /\ f_pc' = f_pc \cup {"validate"}
    /\ UNCHANGED << f_args, f_score, f_surge >>
    /\ UNCHANGED aggVars

CallCalcScore ==
    /\ pc = "idle"
    /\ "score" \notin f_pc
    /\ f_score' = Some(calc_score(f_args.chg, f_args.price, f_args.volume,
                                  f_args.avg_volume))
    /\ f_surge' = score_vol_surge(f_args.chg, f_args.price, f_args.volume,
                                  f_args.avg_volume)
    /\ f_pc' = f_pc \cup {"score"}
    /\ UNCHANGED << f_args, f_valid >>
    /\ UNCHANGED aggVars

NextFn == CallValidate \/ CallCalcScore

SpecFn == InitFn /\ [][NextFn]_vars

----------------------------------------------------------------------------
(* The sector tables, reduced.  Sector names and tickers are numbers.      *)

KR_SECTORS == << << 1, 2, 3 >>, << 4, 5 >>, << 6, 7, 8 >>, << 9, 10, 11 >> >>

US_SECTOR_ETFS == << 1, 2, 3, 4, 5, 6 >>

\* The stock table lists the same sectors in another order than the ETF
\* table.
US_SECTOR_STOCKS ==
    << [name |-> 1, stocks |-> << 101, 102 >>],
       [name |-> 2, stocks |-> << 201 >>],
       [name |-> 3, stocks |-> << 301 >>],
       [name |-> 6, stocks |-> << 601, 602 >>],
       [name |-> 4, stocks |-> << 401 >>],
       [name |-> 5, stocks |-> << 501 >>] >>

TopN == 10

FocusK == 5

StocksPerSector == 5

----------------------------------------------------------------------------
(* What the fetch layer can return.  last = 0 / prev = 0 stand for a       *)
(* missing (None) or zero value: both are falsy.                           *)

\* fault names the step of the per-ticker try block that raises, if any:
\*   "fetch"  : yf.Ticker / fast_info raises (a network error);
\*   "record" : building the stock dict raises (int(vol_day) raises
\*              ValueError when last_volume is NaN).
Snap(l, p, v, a) ==
    [last |-> l, prev |-> p, vol_day |-> v, vol_avg |-> a, fault |-> "none"]

Raising(snap, step) == [snap EXCEPT !.fault = step]

Baseline == Snap(10500, 10000, 20, 20)

SpecialSnapshots(m) ==
    { Snap(9699, 10000, 20, 0),                      \* decliner, no average
      Snap(10500, 10000, 0, 20),                     \* riser, nothing traded
      Snap(IF m = "KR" THEN 13500 ELSE 16000, 10000, 20, 20),   \* outlier
      Snap(10500, 0, 20, 20),                        \* no previous close
      Snap(10800, 10000, 40, 3),                     \* volume spike
      Raising(Baseline, "fetch"),
      Raising(Baseline, "record") }

EtfBaseline == Snap(10100, 10000, 0, 0)

EtfSpecialSnapshots ==
    { Snap(10100, 0, 0, 0), Snap(10250, 10000, 0, 0),
      Snap(9850, 10000, 0, 0), Snap(16000, 10000, 0, 0),
      Raising(EtfBaseline, "fetch") }

\* At most this many snapshots of one aggregation differ from the baseline.
MaxSpecial == 2

----------------------------------------------------------------------------
(* Steps of the aggregations                                               *)

\* round((last - prev) / prev * 100, 2)
change_pct_of(last, prev) == RoundFloat((last - prev) * 10000, prev)

\* Mutant of vol_surge_field: the emitted ratio is clamped to [0.1, 10.0].
vol_surge_field_clamped(vol_day, vol_avg) ==
    IF vol_avg > 0
    THEN { Min(Max(r, 10), 1000) : r \in RoundFloat(vol_day * 100, vol_avg) }
    ELSE {100}

\* round(vol_day / vol_avg, 2) if vol_avg > 0 else 1.0
vol_surge_field(vol_day, vol_avg) ==
    IF vol_avg > 0 THEN RoundFloat(vol_day * 100, vol_avg) ELSE {100}

\* "price": round(last, 0) for KR, round(last, 2) for US
price_field(m, last) ==
    IF m = "KR" THEN RoundHalfEven(last, 100) * 100 ELSE last

\* The dict appended to all_stocks.
stock_record(m, ticker, sector_name, snap, chg, vs) ==
    [ ticker        |-> ticker,
      sector        |-> sector_name,
      price         |-> price_field(m, snap.last),
      change_pct    |-> chg,
      volume        |-> snap.vol_day,
      trading_value |-> (snap.last * snap.vol_day) \div 100,
      vol_surge     |-> vs,
      score         |-> calc_score(chg, snap.last, snap.vol_day,
                                   snap.vol_avg) ]

\* sector_changes.append(chg): fetch_kr_data does it once the score is
\* computed and before the stock dict is built; fetch_us_data has no such
\* list.
counted_change(m, chg) == IF m = "KR" THEN Some(chg) ELSE None

\* The body of the per-ticker try block: the raw change computed (None when
\* last or prev is missing), the change appended to sector_changes, the
\* record appended to all_stocks (None when the ticker is skipped), and
\* whether the except clause was entered.
ticker_outcomes(m, ticker, sector_name, snap) ==
    IF snap.fault = "fetch"
    THEN { [chg |-> None, counted |-> None, stock |-> None, raised |-> TRUE] }
    ELSE IF snap.last # 0 /\ snap.prev # 0
    THEN { LET v == validate_change_pct(c, m)
           IN  IF v = None
               THEN [chg |-> Some(c), counted |-> None, stock |-> None,
                     raised |-> FALSE]
               ELSE IF snap.fault = "record"
               THEN [chg |-> Some(c), counted |-> counted_change(m, v[1]),
                     stock |-> None, raised |-> TRUE]
               ELSE [chg |-> Some(c), counted |-> counted_change(m, v[1]),
                     stock |-> Some(stock_record(m, ticker, sector_name,
                                                 snap, v[1], vs)),
                     raised |-> FALSE]
           : c \in change_pct_of(snap.last, snap.prev),
             vs \in vol_surge_field(snap.vol_day, snap.vol_avg) }
    ELSE { [chg |-> None, counted |-> None, stock |-> None,
            raised |-> FALSE] }

feed_entry(ticker, sector_name, snap, o) ==
    [ ticker |-> ticker, sector |-> sector_name, last |-> snap.last,
      prev |-> snap.prev, vol_day |-> snap.vol_day, vol_avg |-> snap.vol_avg,
      chg |-> o.chg, raised |-> o.raised ]

\* Mutant of sector_summaries: a sector without accepted tickers is
\* zero-filled.
sector_summaries_zero_fill(results, sector_name, changes) ==
    IF changes = << >>
    THEN { Append(results, [name |-> sector_name, change_pct |-> 0]) }
    ELSE { Append(results, [name |-> sector_name, change_pct |-> a])
           : a \in RoundFloat(SumSeq(changes), Len(changes)) }

\* if sector_changes: avg_chg = round(sum / len, 2); sector_results.append
sector_summaries(results, sector_name, changes) ==
    IF changes = << >> THEN { results }
    ELSE { Append(results, [name |-> sector_name, change_pct |-> a])
           : a \in RoundFloat(SumSeq(changes), Len(changes)) }

\* Indices of keys in the order of sorted(..., reverse=True): descending,
\* equal keys in their original order.
RECURSIVE InsertDesc(_, _, _)
InsertDesc(order, j, keys) ==
    IF order = << >> THEN << j >>
    ELSE IF keys[Head(order)] >= keys[j]
         THEN << Head(order) >> \o InsertDesc(Tail(order), j, keys)
         ELSE << j >> \o order

RECURSIVE OrderDesc(_, _)
OrderDesc(keys, n) ==
    IF n = 0 THEN << >> ELSE InsertDesc(OrderDesc(keys, n - 1), n, keys)

\* sorted(items, key=lambda x: x[key], reverse=True), keys[i] = items[i][key]
sorted_desc(items, keys) ==
    LET order == OrderDesc(keys, Len(items))
    IN  [i \in 1..Len(items) |-> items[order[i]]]

Prefix(s, n) == SubSeq(s, 1, Min(n, Len(s)))

\* Mutant of valid_stocks: a volume of 0 passes the filter.
valid_stocks_with_zero(stocks) == SelectSeq(stocks, LAMBDA s : s.volume >= 0)

\* [s for s in all_stocks if s["volume"] > 0]
valid_stocks(stocks) == SelectSeq(stocks, LAMBDA s : s.volume > 0)

Reverse(s) == [i \in 1..Len(s) |-> s[Len(s) + 1 - i]]

\* Mutant of top_by_score: an ascending sort that is then reversed, which
\* puts equal scores in reverse encounter order.
top_by_score_reversed_ties(valid) ==
    LET rev == Reverse(valid)
    IN  Prefix(sorted_desc(rev, [i \in 1..Len(rev) |-> rev[i].score]), TopN)

\* sorted(valid_stocks, key=lambda x: x["score"], reverse=True)[:10]
top_by_score(valid) ==
    Prefix(sorted_desc(valid, [i \in 1..Len(valid) |-> valid[i].score]), TopN)

\* sorted(sector_results, key=lambda x: x["change_pct"], reverse=True)[:5]
top_sectors(results) ==
    Prefix(sorted_desc(results,
                       [i \in 1..Len(results) |-> results[i].change_pct]),
           FocusK)

\* {s["name"] for s in top_sectors}
focus_names(results) ==
    LET top == top_sectors(results)
    IN  { top[i].name : i \in 1..Len(top) }

Cost(snap, base) == IF snap = base THEN 0 ELSE 1

Choices(base, special) ==
    IF specials < MaxSpecial THEN {base} \cup special ELSE {base}

Init ==
    /\ FnIdle
    /\ f_args = [chg |-> 0, price |-> 100, volume |-> 0, avg_volume |-> 0,
                 market |-> "KR"]
    /\ market \in {"KR", "US"}
    /\ pc = IF market = "KR" THEN "kr_ticker" ELSE "us_etf"
    /\ si = 1 /\ ti = 1
    /\ sector_changes = << >> /\ sector_results = << >>
    /\ all_stocks = << >> /\ top_sector_names = {} /\ top_stocks = << >>
    /\ feed = << >> /\ etf_feed = << >> /\ specials = 0

\* fetch_kr_data: one pass of the inner loop.
KRTicker ==
    /\ pc = "kr_ticker"
    /\ \E snap \in Choices(Baseline, SpecialSnapshots("KR")) :
       \E o \in ticker_outcomes("KR", KR_SECTORS[si][ti], si, snap) :
          /\ feed' = Append(feed, feed_entry(KR_SECTORS[si][ti], si, snap,
                                             o))
          /\ specials' = specials + Cost(snap, Baseline)
          /\ sector_changes' = IF o.counted = None THEN sector_changes
                                ELSE Append(sector_changes, o.counted[1])
          /\ all_stocks' = IF o.stock = None THEN all_stocks
                            ELSE Append(all_stocks, o.stock[1])
    /\ IF ti < Len(KR_SECTORS[si])
       THEN ti' = ti + 1 /\ pc' = pc
       ELSE ti' = 1 /\ pc' = "kr_sector_end"
    /\ UNCHANGED << market, si, sector_results, top_sector_names, top_stocks,
                    etf_feed >>
    /\ UNCHANGED fnVars

\* fetch_kr_data: the end of one pass of the outer loop.
KRSectorEnd ==
    /\ pc = "kr_sector_end"
    /\ sector_results' \in sector_summaries(sector_results, si, sector_changes)
    /\ sector_changes' = << >>
    /\ IF si < Len(KR_SECTORS)
       THEN si' = si + 1 /\ pc' = "kr_ticker"
       ELSE si' = si /\ pc' = "select"
    /\ UNCHANGED << market, ti, all_stocks, top_sector_names, top_stocks,
                    feed, etf_feed, specials >>
    /\ UNCHANGED fnVars

\* fetch_us_data: one pass of the sector ETF loop.
USEtf ==
    /\ pc = "us_etf"
    /\ \E snap \in Choices(EtfBaseline, EtfSpecialSnapshots) :
          /\ etf_feed' = Append(etf_feed, [sector |-> US_SECTOR_ETFS[si],
                                           last |-> snap.last,
                                           prev |-> snap.prev,
                                           raised |-> (snap.fault = "fetch")])
          /\ specials' = specials + Cost(snap, EtfBaseline)
          /\ IF snap.fault # "fetch" /\ snap.last # 0 /\ snap.prev # 0
             THEN \E chg \in change_pct_of(snap.last, snap.prev) :
                     sector_results' =
                         Append(sector_results, [name |-> US_SECTOR_ETFS[si],
                                                 change_pct |-> chg])
             ELSE UNCHANGED sector_results
    /\ IF si < Len(US_SECTOR_ETFS)
       THEN si' = si + 1 /\ pc' = pc
       ELSE si' = 1 /\ pc' = "us_focus"
    /\ UNCHANGED << market, ti, sector_changes, all_stocks, top_sector_names,
                    top_stocks, feed >>
    /\ UNCHANGED fnVars

\* fetch_us_data: the focus set.
USFocus ==
    /\ pc = "us_focus"
    /\ top_sector_names' = focus_names(sector_results)
    /\ pc' = "us_sector"
    /\ UNCHANGED << market, si, ti, sector_changes, sector_results,
                    all_stocks, top_stocks, feed, etf_feed, specials >>
    /\ UNCHANGED fnVars

USAfterSector ==
    IF si < Len(US_SECTOR_STOCKS)
    THEN si' = si + 1 /\ pc' = "us_sector"
    ELSE si' = si /\ pc' = "select"

\* Mutant of in_focus: no sector is skipped.
in_focus_always(sector_name, names) == TRUE

\* a sector is fetched only when it is in the focus set
in_focus(sector_name, names) == sector_name \in names

\* fetch_us_data: a sector outside the focus set is skipped.
USSectorSkip ==
    /\ pc = "us_sector"
    /\ ~ in_focus(US_SECTOR_STOCKS[si].name, top_sector_names)
    /\ USAfterSector
    /\ UNCHANGED << market, ti, sector_changes, sector_results, all_stocks,
                    top_sector_names, top_stocks, feed, etf_feed, specials >>
    /\ UNCHANGED fnVars

\* fetch_us_data: a focus sector's stocks are walked.
USSectorEnter ==
    /\ pc = "us_sector"
    /\ in_focus(US_SECTOR_STOCKS[si].name, top_sector_names)
    /\ ti' = 1 /\ pc' = "us_ticker"
    /\ UNCHANGED << market, si, sector_changes, sector_results, all_stocks,
                    top_sector_names, top_stocks, feed, etf_feed, specials >>
    /\ UNCHANGED fnVars

\* fetch_us_data: one pass of the inner loop over stocks[:5].
USTicker ==
    /\ pc = "us_ticker"
    /\ LET sec    == US_SECTOR_STOCKS[si]
           stocks == Prefix(sec.stocks, StocksPerSector)
       IN  /\ \E snap \in Choices(Baseline, SpecialSnapshots("US")) :
              \E o \in ticker_outcomes("US", stocks[ti], sec.name, snap) :
                 /\ feed' = Append(feed, feed_entry(stocks[ti], sec.name,
                                                    snap, o))
                 /\ specials' = specials + Cost(snap, Baseline)
                 /\ IF o.stock = None
                    THEN UNCHANGED all_stocks
                    ELSE all_stocks' = Append(all_stocks, o.stock[1])
           /\ IF ti < Len(stocks)
              THEN ti' = ti + 1 /\ pc' = pc /\ si' = si
              ELSE ti' = 1 /\ USAfterSector
    /\ UNCHANGED << market, sector_changes, sector_results, top_sector_names,
                    top_stocks, etf_feed >>
    /\ UNCHANGED fnVars

\* Both functions: the volume filter, the sort and the cut, then return.
SelectTop ==
    /\ pc = "select"
    /\ top_stocks' = top_by_score(valid_stocks(all_stocks))
    /\ pc' = "done"
    /\ UNCHANGED << market, si, ti, sector_changes, sector_results,
                    all_stocks, top_sector_names, feed, etf_feed, specials >>
    /\ UNCHANGED fnVars

Next ==
    \/ KRTicker
    \/ KRSectorEnd
    \/ USEtf
    \/ USFocus
    \/ USSectorSkip
    \/ USSectorEnter
    \/ USTicker
    \/ SelectTop

Spec == Init /\ [][Next]_vars

----------------------------------------------------------------------------
(* Properties of the pure functions, checked under SpecFn                  *)

Validated == "validate" \in f_pc

Scored == "score" \in f_pc

\* price * day_volume, in hundredths
ArgValue == f_args.price * f_args.volume

\* C1: validate_change_pct(chg, market) returns None exactly when abs(chg)
\* is strictly greater than the market's limit (30 for KR, 50 for US); for
\* abs(chg) <= limit, the limit itself included, it returns chg unchanged.
C1_RejectsExactlyAboveLimit ==
    Validated =>
        LET limit == IF f_args.market = "KR" THEN 3000 ELSE 5000
        IN  /\ (f_valid = None) <=> (Abs(f_args.chg) > limit)
            /\ Abs(f_args.chg) <= limit => f_valid = Some(f_args.chg)

\* C1 witness: a change exactly at the KR limit was validated and accepted.
C1_Witness ==
    /\ Validated
    /\ f_args.market = "KR" /\ f_args.chg = 3000
    /\ f_valid = Some(3000)

\* C5 as stated: for change_pct > 0 the score is >= 0.0, and it is 0.0 if
\* and only if price * day_volume < 1.
C5_Original ==
    (Scored /\ f_args.chg > 0) =>
        /\ f_score[1] >= 0
        /\ (f_score[1] = 0) <=> (ArgValue < 100)

\* C5 amended: for change_pct > 0 the score is >= 0.0, and it is 0.0
\* whenever price * day_volume < 1 (the converse does not hold).
C5_NonNegativeAndZeroWhenNoActivity ==
    (Scored /\ f_args.chg > 0) =>
        /\ f_score[1] >= 0
        /\ ArgValue < 100 => f_score[1] = 0

\* C5 witness: a riser with shares traded but a trading value below 1 was
\* scored 0.0.
C5_Witness ==
    /\ Scored
    /\ f_args.chg > 0 /\ f_args.volume > 0 /\ ArgValue < 100
    /\ f_score = Some(0)

\* C6: for every change_pct <= 0, whatever the price, the day volume and the
\* average volume, calc_score returns change_pct itself.
C6_DeclinerScoreIsChange ==
    (Scored /\ f_args.chg <= 0) => f_score = Some(f_args.chg * 100)

\* C6 witness: a decliner with real trading and a volume average was scored.
C6_Witness ==
    /\ Scored
    /\ f_args.chg < 0 /\ ArgValue >= 100 /\ f_args.avg_volume > 0
    /\ f_score = Some(f_args.chg * 100)

\* The surge factor the claim describes, as a fraction <<num, den>>.
SurgeByCases(volume, avg_volume) ==
    IF avg_volume = 0 THEN << 1, 1 >>
    ELSE IF volume > 10 * avg_volume THEN << 10, 1 >>
    ELSE IF 10 * volume < avg_volume THEN << 1, 10 >>
    ELSE << volume, avg_volume >>

\* C7: for change_pct > 0 and price * day_volume >= 1 the surge factor
\* multiplied into the score lies in [0.1, 10.0]: the ratio
\* day_volume / avg_volume when it is within the bounds, 10.0 above them,
\* 0.1 below them, 1.0 when avg_volume is 0.
C7_SurgeFactorClamped ==
    (Scored /\ f_args.chg > 0 /\ ArgValue >= 100) =>
        /\ f_surge # None
        /\ LET got  == f_surge[1]
               want == SurgeByCases(f_args.volume, f_args.avg_volume)
           IN  /\ 10 * got[1] >= got[2]
               /\ got[1] <= 10 * got[2]
               /\ got[1] * want[2] = want[1] * got[2]
               /\ f_score[1] = RoundHalfEven(
                                  f_args.chg * log10(ArgValue) * want[1],
                                  10 * want[2])

\* C7 witness: a ratio above 10 was scored with the factor 10.0.
C7_Witness ==
    /\ Scored
    /\ f_args.chg > 0 /\ ArgValue >= 100
    /\ f_args.avg_volume > 0 /\ f_args.volume > 10 * f_args.avg_volume
    /\ f_surge = Some(<< 10, 1 >>)

\* The three tiers of the claim.
Decliner == f_args.chg <= 0

NoActivity == f_args.chg > 0 /\ ArgValue < 100

TradedRiser == f_args.chg > 0 /\ ArgValue >= 100

\* C12 as stated: score(decliner) < score(no-activity) = 0.0 <
\* score(traded positive mover) for any three records of the three tiers.
\* The middle score is the constant 0.0, so the ordering of every triple is
\* the three per-call bounds below.
C12_Original ==
    Scored =>
        /\ Decliner => f_score[1] < 0
        /\ NoActivity => f_score[1] = 0
        /\ TradedRiser => f_score[1] > 0

\* C12 amended: the ordering is weak,
\* score(decliner) <= score(no-activity) = 0.0 <= score(traded mover); a
\* decliner scores 0.0 exactly when its change_pct is 0.
C12_WeakThreeTierOrdering ==
    Scored =>
        /\ Decliner => /\ f_score[1] <= 0
                       /\ (f_score[1] = 0) <=> (f_args.chg = 0)
        /\ NoActivity => f_score[1] = 0
        /\ TradedRiser => f_score[1] >= 0

\* C12 witness: a traded positive mover was scored 0.0, level with the
\* no-activity tier.
C12_Witness ==
    /\ Scored
    /\ TradedRiser
    /\ f_score = Some(0)

----------------------------------------------------------------------------
(* Properties of the aggregations, checked under Spec                      *)

Done == pc = "done"

\* a is n/d rounded to the nearest whole number (d > 0)
IsRounded(a, n, d) == 2 * Abs(a * d - n) <= d

\* The claim's limit of the market being aggregated.
MarketLimit == IF market = "KR" THEN 3000 ELSE 5000

\* A fetched ticker whose change was computed and rejected / accepted by
\* the outlier validator.
Rejected(f) == f.chg # None /\ Abs(f.chg[1]) > MarketLimit

Accepted(f) == f.chg # None /\ Abs(f.chg[1]) <= MarketLimit

\* The change_pct of the accepted tickers of a sector, in feed order.
AcceptedOf(sector_name) ==
    SelectSeq(feed, LAMBDA f : f.sector = sector_name /\ Accepted(f))

AcceptedSum(sector_name) ==
    LET acc == AcceptedOf(sector_name)
    IN  SumSeq([i \in 1..Len(acc) |-> acc[i].chg[1]])

SummariesOf(sector_name) ==
    { i \in 1..Len(sector_results) : sector_results[i].name = sector_name }

\* The sector has a summary exactly when it has accepted tickers, and the
\* summary is their mean rounded to 2 decimals.
SectorIsMeanOfAccepted(sector_name) ==
    LET n == Len(AcceptedOf(sector_name))
    IN  IF n = 0
        THEN SummariesOf(sector_name) = {}
        ELSE /\ Cardinality(SummariesOf(sector_name)) = 1
             /\ \A i \in SummariesOf(sector_name) :
                   IsRounded(sector_results[i].change_pct,
                             AcceptedSum(sector_name), n)

\* The sector's summary, when there is one, is the rounded change of the
\* sector's ETF, whatever its size.
SectorIsEtfChange(sector_name) ==
    /\ Cardinality(SummariesOf(sector_name)) <= 1
    /\ \A i \in SummariesOf(sector_name) :
          \E k \in 1..Len(etf_feed) :
             /\ etf_feed[k].sector = sector_name
             /\ ~ etf_feed[k].raised
             /\ etf_feed[k].last # 0 /\ etf_feed[k].prev # 0
             /\ IsRounded(sector_results[i].change_pct,
                          (etf_feed[k].last - etf_feed[k].prev) * 10000,
                          etf_feed[k].prev)

InStocks(ticker, stocks) ==
    \E i \in 1..Len(stocks) : stocks[i].ticker = ticker

FeedOf(ticker) == CHOOSE f \in { feed[k] : k \in 1..Len(feed) } :
                     f.ticker = ticker

\* C2: no record whose day volume is 0 appears in the returned top_stocks.
C2_NoZeroVolumeInTop ==
    \A i \in 1..Len(top_stocks) :
        /\ top_stocks[i].volume > 0
        /\ FeedOf(top_stocks[i].ticker).vol_day > 0

\* C2 witness: an aggregation returned a non-empty top_stocks although an
\* accepted, scored record had day volume 0.
C2_Witness ==
    /\ Done
    /\ top_stocks # << >>
    /\ \E i \in 1..Len(all_stocks) : all_stocks[i].volume = 0

\* C3 as stated: a rejected ticker is not scored, is absent from top_stocks,
\* and its sector's average is computed only from the accepted tickers of
\* that sector, in either market.
C3_Original ==
    Done =>
        \A k \in 1..Len(feed) :
            Rejected(feed[k]) =>
                /\ ~ InStocks(feed[k].ticker, all_stocks)
                /\ ~ InStocks(feed[k].ticker, top_stocks)
                /\ SectorIsMeanOfAccepted(feed[k].sector)

\* C3 amended: a rejected ticker is never scored and is absent from
\* top_stocks; in the KR aggregation its sector's average is the mean of the
\* remaining accepted tickers of that sector, in the US aggregation its
\* sector's value is the sector ETF's own change and no ticker enters it.
C3_RejectedContributesNothing ==
    \A k \in 1..Len(feed) :
        Rejected(feed[k]) =>
            /\ ~ InStocks(feed[k].ticker, all_stocks)
            /\ ~ InStocks(feed[k].ticker, top_stocks)
            /\ (Done /\ market = "KR") =>
                   SectorIsMeanOfAccepted(feed[k].sector)
            /\ (Done /\ market = "US") => SectorIsEtfChange(feed[k].sector)

\* C3 witness: a KR aggregation finished in which a rejected ticker shares
\* its sector with an accepted one, so the sector has an average.
C3_Witness ==
    /\ Done /\ market = "KR"
    /\ \E k \in 1..Len(feed) :
          /\ Rejected(feed[k])
          /\ AcceptedOf(feed[k].sector) # << >>
          /\ SummariesOf(feed[k].sector) # {}

\* Every top_stocks entry is one of the candidates, each at most once.
TopFromCandidates ==
    /\ \A k \in 1..Len(top_stocks) :
          \E p \in 1..Len(all_stocks) :
             all_stocks[p] = top_stocks[k] /\ all_stocks[p].volume > 0
    /\ \A k, l \in 1..Len(top_stocks) :
          top_stocks[k].ticker = top_stocks[l].ticker => k = l

\* Position of a ticker in encounter order.
PosOf(ticker) ==
    CHOOSE p \in 1..Len(all_stocks) : all_stocks[p].ticker = ticker

Candidates == { p \in 1..Len(all_stocks) : all_stocks[p].volume > 0 }

\* a ranks before b: higher score, or the same score and met earlier
RanksBefore(a, b) ==
    \/ a.score > b.score
    \/ a.score = b.score /\ PosOf(a.ticker) < PosOf(b.ticker)

\* C4: top_stocks is the first min(10, n) elements of the stable
\* descending-by-score sort of the n accepted candidates with
\* day_volume > 0.
C4_TopIsStableSortPrefix ==
    Done =>
        /\ Len(top_stocks) = Min(10, Cardinality(Candidates))
        /\ TopFromCandidates
        /\ \A k, l \in 1..Len(top_stocks) :
              k < l => RanksBefore(top_stocks[k], top_stocks[l])
        /\ \A p \in Candidates :
              ~ InStocks(all_stocks[p].ticker, top_stocks) =>
                  \A k \in 1..Len(top_stocks) :
                      RanksBefore(top_stocks[k], all_stocks[p])

\* C4 witness: more than ten candidates, one of them cut off, and scores
\* that differ inside top_stocks.
C4_Witness ==
    /\ Done
    /\ Cardinality(Candidates) > 10
    /\ Len(top_stocks) = 10
    /\ top_stocks[1].score > top_stocks[10].score
    /\ top_stocks[9].score = top_stocks[10].score

\* C8 as stated: in both markets every summary belongs to a sector with at
\* least one accepted ticker and is the rounded mean of the accepted
\* tickers' change_pct; a sector without accepted tickers has no summary.
C8_Original ==
    Done =>
        /\ \A i \in 1..Len(sector_results) :
              /\ AcceptedOf(sector_results[i].name) # << >>
              /\ SectorIsMeanOfAccepted(sector_results[i].name)
        /\ \A f \in { feed[k] : k \in 1..Len(feed) } :
              SectorIsMeanOfAccepted(f.sector)

KRSectorNames == 1..Len(KR_SECTORS)

UsableEtf(e) == ~ e.raised /\ e.last # 0 /\ e.prev # 0

\* C8 amended: in the KR aggregation every summary belongs to a sector with
\* at least one accepted ticker and is the rounded mean of exactly the
\* accepted tickers, and a sector without accepted tickers has no summary;
\* in the US aggregation there is one summary per sector ETF with a usable
\* price pair, and it is that ETF's rounded change, not validated and
\* independent of the sector's tickers.
C8_SectorSummaries ==
    Done =>
        /\ market = "KR" =>
              /\ \A i \in 1..Len(sector_results) :
                    AcceptedOf(sector_results[i].name) # << >>
              /\ \A s \in KRSectorNames : SectorIsMeanOfAccepted(s)
        /\ market = "US" =>
              /\ \A i \in 1..Len(sector_results) :
                    SectorIsEtfChange(sector_results[i].name)
              /\ \A k \in 1..Len(etf_feed) :
                    UsableEtf(etf_feed[k]) <=>
                        SummariesOf(etf_feed[k].sector) # {}

\* C8 witness: a KR aggregation finished with one sector left out because
\* none of its tickers was accepted, and another sector averaged over fewer
\* tickers than were fetched.
C8_Witness ==
    /\ Done /\ market = "KR"
    /\ \E s \in KRSectorNames :
          AcceptedOf(s) = << >> /\ SummariesOf(s) = {}
    /\ sector_results # << >>

\* C9 as stated: every emitted stock's vol_surge lies in [0.1, 10.0] and is
\* the clamped surge the score was computed from.
C9_Original ==
    \A i \in 1..Len(top_stocks) :
        LET f    == FeedOf(top_stocks[i].ticker)
            used == SurgeByCases(f.vol_day, f.vol_avg)
        IN  /\ top_stocks[i].vol_surge >= 10
            /\ top_stocks[i].vol_surge <= 1000
            /\ top_stocks[i].vol_surge * used[2] = 100 * used[1]

StockSurgeIsRoundedRatio(r) ==
    LET f == FeedOf(r.ticker)
    IN  IF f.vol_avg > 0
        THEN IsRounded(r.vol_surge, f.vol_day * 100, f.vol_avg)
        ELSE r.vol_surge = 100

\* C9 amended: every stock record carries as vol_surge the ratio
\* day_volume / avg_volume rounded to 2 decimals, or 1.0 when avg_volume is
\* 0; it is not clamped.
C9_SurgeFieldIsRoundedRatio ==
    /\ \A i \in 1..Len(all_stocks) : StockSurgeIsRoundedRatio(all_stocks[i])
    /\ \A i \in 1..Len(top_stocks) : StockSurgeIsRoundedRatio(top_stocks[i])

\* C9 witness: top_stocks holds a record whose vol_surge is above 10.0.
C9_Witness ==
    /\ Done
    /\ \E i \in 1..Len(top_stocks) : top_stocks[i].vol_surge > 1000

FocusChosen == market = "US" /\ pc \in {"us_sector", "us_ticker", "select", "done"}

\* C10: in the US aggregation the focus set is the top 5 sector summaries by
\* change_pct descending (all of them when fewer than 5 exist), and only the
\* tickers of focus sectors are fetched, validated and scored.
C10_FocusIsTopFivePrefilter ==
    FocusChosen =>
        /\ Cardinality(top_sector_names) = Min(5, Len(sector_results))
        /\ \A n \in top_sector_names : SummariesOf(n) # {}
        /\ \A i, j \in 1..Len(sector_results) :
              ( /\ sector_results[i].name \in top_sector_names
                /\ sector_results[j].name \notin top_sector_names )
              => \/ sector_results[i].change_pct > sector_results[j].change_pct
                 \/ /\ sector_results[i].change_pct
                         = sector_results[j].change_pct
                    /\ i < j
        /\ \A k \in 1..Len(feed) : feed[k].sector \in top_sector_names
        /\ \A k \in 1..Len(all_stocks) :
              all_stocks[k].sector \in top_sector_names
        /\ \A k \in 1..Len(top_stocks) :
              top_stocks[k].sector \in top_sector_names

\* C10 witness: a US aggregation finished with six sector summaries, one of
\* them outside the focus set, and stocks scored.
C10_Witness ==
    /\ Done /\ market = "US"
    /\ Len(sector_results) = 6
    /\ Cardinality(top_sector_names) = 5
    /\ all_stocks # << >>
    /\ \E i \in 1..Len(sector_results) :
          /\ sector_results[i].name \notin top_sector_names
          /\ \A k \in 1..Len(feed) : feed[k].sector # sector_results[i].name

\* The change_pct of the tickers of a sector that were accepted and whose
\* processing did not raise, in feed order.
CompletedOf(sector_name) ==
    SelectSeq(feed, LAMBDA f : /\ f.sector = sector_name
                               /\ Accepted(f) /\ ~ f.raised)

\* The sector has a summary exactly when some ticker of it completed, and
\* the summary is the completed tickers' mean rounded to 2 decimals.
SectorIsMeanOfCompleted(sector_name) ==
    LET done == CompletedOf(sector_name)
        n    == Len(done)
    IN  IF n = 0
        THEN SummariesOf(sector_name) = {}
        ELSE /\ Cardinality(SummariesOf(sector_name)) = 1
             /\ \A i \in SummariesOf(sector_name) :
                   IsRounded(sector_results[i].change_pct,
                             SumSeq([j \in 1..n |-> done[j].chg[1]]), n)

\* The change_pct of the all_stocks records of a sector, in order.
PoolChangesOf(sector_name) ==
    LET pool == SelectSeq(all_stocks, LAMBDA r : r.sector = sector_name)
    IN  [j \in 1..Len(pool) |-> pool[j].change_pct]

Aggregating == market \in {"KR", "US"}

Fetched(ticker) == \E k \in 1..Len(feed) : feed[k].ticker = ticker

\* Short of its return the aggregation stands at a loop position from which
\* its next step can be taken.
CanStep ==
    \/ /\ pc \in {"kr_ticker", "kr_sector_end"}
       /\ si \in 1..Len(KR_SECTORS) /\ ti \in 1..Len(KR_SECTORS[si])
    \/ pc = "us_etf" /\ si \in 1..Len(US_SECTOR_ETFS)
    \/ pc \in {"us_focus", "select"}
    \/ /\ pc \in {"us_sector", "us_ticker"}
       /\ si \in 1..Len(US_SECTOR_STOCKS)
       /\ ti \in 1..Len(US_SECTOR_STOCKS[si].stocks)

\* The aggregation is never stopped short of its return, and at its return
\* every ticker it had to walk was fetched, whatever raised on the way.
RunsToCompletion ==
    /\ Done \/ CanStep
    /\ (Done /\ market = "KR") =>
          \A s \in 1..Len(KR_SECTORS) : \A i \in 1..Len(KR_SECTORS[s]) :
              Fetched(KR_SECTORS[s][i])
    /\ (Done /\ market = "US") =>
          \A s \in 1..Len(US_SECTOR_STOCKS) :
              US_SECTOR_STOCKS[s].name \in top_sector_names =>
                  \A i \in 1..Min(5, Len(US_SECTOR_STOCKS[s].stocks)) :
                      Fetched(US_SECTOR_STOCKS[s].stocks[i])

\* C11: a ticker whose processing raises does not stop the aggregation,
\* which runs on to its return, and the ticker is absent from both the
\* sector average and the candidate pool: it never contributes to one of
\* them without the other.
C11_FailedTickerAbsentFromBoth ==
    Aggregating =>
        /\ RunsToCompletion
        /\ \A k \in 1..Len(feed) :
              feed[k].raised =>
                  /\ ~ InStocks(feed[k].ticker, all_stocks)
                  /\ ~ InStocks(feed[k].ticker, top_stocks)
        /\ (market = "KR" /\ pc = "kr_sector_end") =>
              sector_changes = PoolChangesOf(si)
        /\ (market = "KR" /\ Done) =>
              \A s \in KRSectorNames : SectorIsMeanOfCompleted(s)

\* The part of C11 that the code keeps: the aggregation runs on to its
\* return and a ticker that raised is in neither all_stocks nor top_stocks.
C11_FailedTickerNotInPool ==
    Aggregating =>
        /\ RunsToCompletion
        /\ \A k \in 1..Len(feed) :
              feed[k].raised =>
                  /\ ~ InStocks(feed[k].ticker, all_stocks)
                  /\ ~ InStocks(feed[k].ticker, top_stocks)

\* C11 witness: an aggregation returned after the processing of one of its
\* tickers had raised.
C11_Witness ==
    /\ Done
    /\ \E k \in 1..Len(feed) : feed[k].raised
    /\ top_stocks # << >>

====
